---- MODULE Spec2Model ----
(***************************************************************************)
(* Model of the concept_rs simulation runner (src/src/runner.rs): the      *)
(* per-tick perceive/act state machine, the action selector and the       *)
(* serialisation of the agents.                                            *)
(*                                                                         *)
(* Reals (f64) are modelled in fixed point: a weight or an activation x    *)
(* is the integer x * Scale, so the interval [-1, 1] is -Scale .. Scale.   *)
(* Probabilities and the random draw live on the grid 0 .. PScale, where   *)
(* PScale stands for 1.0; a division rounds towards zero, which is where   *)
(* the model gets the rounding drift of the floating-point division.       *)
(***************************************************************************)
EXTENDS Integers, Sequences, FiniteSets, TLC

\* ---------------------------------------------------------------- bounds
MaxAgents == 2
MaxBeliefs == 2
MaxBehaviours == 3
MaxTicks == 2
Scale == 2
PScale == 4
MaxRecords == 3

\* default of --start (src/src/main.rs:25)
StartTime == 1

\* Option values: None is the empty sequence, Some(x) the sequence <<x>>.
None == <<>>

Some(x) == <<x>>

IsSome(o) == o # <<>>

Unwrap(o) == o[1]

\* ------------------------------------------------------ generic helpers
\* integer division rounding towards zero (d > 0)
TDiv(n, d) == IF n >= 0 THEN n \div d ELSE -((-n) \div d)

Range(s) == {s[i] : i \in 1..Len(s)}

RECURSIVE SumSeq(_)
SumSeq(s) == IF s = <<>> THEN 0 ELSE Head(s) + SumSeq(Tail(s))

\* all orderings of a finite set, as sequences without repetition
Perms(S) == {p \in [1..Cardinality(S) -> S] : \A i, j \in 1..Cardinality(S) : p[i] = p[j] => i = j}

\* lookup in a partial map (a function whose DOMAIN is the set of keys)
Get(m, k) == IF k \in DOMAIN m THEN Some(m[k]) ELSE None

GetOr(m, k, d) == IF k \in DOMAIN m THEN m[k] ELSE d

\* m with key k set to v (insert or overwrite)
Put(m, k, v) == [x \in (DOMAIN m) \cup {k} |-> IF x = k THEN v ELSE m[x]]

EmptyMap == [x \in {} |-> 0]

\* ------------------------------------------------------------ variables
VARIABLES
    behaviours,      \* config.behaviours: the loaded behaviours, in input order
    beliefs,         \* config.beliefs: the loaded beliefs, in input order
    agents,          \* config.agents / config.agents_mut, in input order
    prs,             \* config.prs: (belief, behaviour) -> weight, partial
    start_time,      \* config.start_time
    end_time,        \* config.end_time
    perceptions,     \* belief -> (behaviour -> weight), partial
    relationships,   \* belief -> (belief -> weight), partial
    friends,         \* agent -> (agent -> weight), partial
    deltas,          \* agent -> (belief -> coefficient), partial
    actions,         \* agent -> (time -> behaviour), partial
    activations,     \* agent -> (time -> (belief -> activation)), partial
    pc,              \* where Runner::run is
    time,            \* the tick being processed (loop variable of tick_between)
    ai,              \* position in the agent iteration of the current phase
    bi,              \* position in the belief iteration of perceive_beliefs
    order,           \* the agent iteration order of the current phase
    draws,           \* number of values taken from the random generator
    sel,             \* locals of the last agent_perform_action call
    output,          \* what has been written to config.output_file
    snap,            \* actions and activations as they were when the phase began
    phaseDraws,      \* the draws of the current act phase, in the order taken
    actions2,        \* actions of a second run on the same input
    activations2,    \* activations of a second run on the same input
    records          \* the parsed records of the four input files

inputVars == <<behaviours, beliefs, agents, prs, start_time, end_time,
               perceptions, relationships, friends, deltas, records>>

vars == <<behaviours, beliefs, agents, prs, start_time, end_time,
          perceptions, relationships, friends, deltas, actions, activations,
          pc, time, ai, bi, order, draws, sel, output, snap, phaseDraws,
          actions2, activations2, records>>

\* -------------------------------------------------- entity model getters
\* Agent::get_activation(time, belief)
get_activation(acts, t, b) == IF t \in DOMAIN acts THEN Get(acts[t], b) ELSE None

\* Agent::get_action(time)
get_action(acts, t) == Get(acts, t)

\* Agent::set_activation(time, belief, Some(v)) on one agent's table
set_activation(acts, t, b, v) == Put(acts, t, Put(GetOr(acts, t, EmptyMap), b, v))

\* Agent::set_action(time, Some(behaviour)) on one agent's table
set_action(acts, t, beh) == Put(acts, t, beh)

\* ----------------------------------------------------- activation kernel
\* Sum over all beliefs of activation(t, other) * relationship(belief, other),
\* in units of 1/Scale^2; absent entries contribute zero.
ContextSum(acts, t, rel, bs) ==
    SumSeq([i \in 1..Len(bs) |->
        LET a == get_activation(acts, t, bs[i])
        IN  IF a = None THEN 0 ELSE Unwrap(a) * GetOr(rel, bs[i], 0)])

\* The friends that have an action at time t.
ActingFriends(fr, allActions, t) == {f \in DOMAIN fr : get_action(allActions[f], t) # None}

RECURSIVE SumOver(_, _)
SumOver(S, f) ==
    IF S = {} THEN 0
    ELSE LET x == CHOOSE y \in S : TRUE IN f[x] + SumOver(S \ {x}, f)

\* Sum over the acting friends of weight * perception(belief, friend's action),
\* in units of 1/Scale^2.
PressureSum(fr, allActions, t, perc) ==
    LET F == ActingFriends(fr, allActions, t)
    IN  SumOver(F, [f \in F |-> fr[f] * GetOr(perc, allActions[f][t], 0)])

\* delta_change = (1 + context) / 2 * pressure when pressure >= 0, else
\* (1 - context) / 2 * pressure; context is the mean over all beliefs, pressure
\* the mean over the acting friends. One rounding, towards zero.
ActivationChange(acts, fr, allActions, t, rel, perc, bs) ==
    LET nB  == Len(bs)
        nF  == Cardinality(ActingFriends(fr, allActions, t))
        cs  == ContextSum(acts, t, rel, bs)
        ps  == PressureSum(fr, allActions, t, perc)
        one == Scale * Scale * nB
    IN  IF nF = 0 \/ nB = 0 THEN 0
        ELSE IF ps >= 0
             THEN TDiv((one + cs) * ps, 2 * Scale * Scale * Scale * nB * nF)
             ELSE TDiv((one - cs) * ps, 2 * Scale * Scale * Scale * nB * nF)

ClampWide(x) == IF x < -2 * Scale THEN -2 * Scale ELSE IF x > 2 * Scale THEN 2 * Scale ELSE x

\* clamp(x, -1, +1)
Clamp(x) == IF x < -Scale THEN -Scale ELSE IF x > Scale THEN Scale ELSE x

\* Agent::update_activation(time, belief, beliefs): the new activation, or
\* None when the update fails (no activation of the belief at time - 1).
NewActivation(acts, fr, allActions, t, b, rel, perc, bs) ==
    LET prior == get_activation(acts, t - 1, b)
    IN  IF prior = None THEN None
        ELSE Some(Clamp(Unwrap(prior)
                        + ActivationChange(acts, fr, allActions, t - 1, rel, perc, bs)))

\* ------------------------------------------------------- action selector
\* prs.get(&(belief, behaviour)).unwrap_or(&0.0)
PrsOrOne(table, b, h) == IF <<b, h>> \in DOMAIN table THEN table[<<b, h>>] ELSE 1

PrsOr0(table, b, h) == IF <<b, h>> \in DOMAIN table THEN table[<<b, h>>] ELSE 0

\* agent.get_activation(time, belief).unwrap_or(0.0)
ActivationOr0(acts, t, b) ==
    LET a == get_activation(acts, t, b) IN IF a = None THEN 0 ELSE Unwrap(a)

\* The score of one behaviour: the sum, in belief order, of prs * activation.
Score(table, acts, t, h, bs) ==
    SumSeq([i \in 1..Len(bs) |-> PrsOr0(table, bs[i], h) * ActivationOr0(acts, t, bs[i])])

\* unnormalized_probs before the sort: one (behaviour, score) per behaviour,
\* in the order of config.behaviours.
UnnormalizedProbs(table, acts, t, hs, bs) ==
    [i \in 1..Len(hs) |-> [k |-> hs[i], v |-> Score(table, acts, t, hs[i], bs)]]

\* Insert e into the ascending sequence s after every entry that is not
\* greater than it (sort_by is stable).
RECURSIVE InsertFirst(_, _)
InsertFirst(s, e) ==
    IF s = <<>> THEN <<e>>
    ELSE IF e.v <= Head(s).v THEN <<e>> \o s
    ELSE <<Head(s)>> \o InsertFirst(Tail(s), e)

RECURSIVE InsertStable(_, _)
InsertStable(s, e) ==
    IF s = <<>> THEN <<e>>
    ELSE IF e.v < Head(s).v THEN <<e>> \o s
    ELSE <<Head(s)>> \o InsertStable(Tail(s), e)

\* unnormalized_probs.sort_by(|(_, v1), (_, v2)| v1.partial_cmp(v2).unwrap())
RECURSIVE SortByScore(_)
SortByScore(s) ==
    IF s = <<>> THEN <<>>
    ELSE InsertStable(SortByScore(SubSeq(s, 1, Len(s) - 1)), s[Len(s)])

IsNonNegative(e) == e.v >= 0

\* the filter predicate |(_, x)| *x > 0.0
IsPositive(e) == e.v > 0

\* unnormalized_probs.into_iter().filter(|(_, x)| *x > 0.0).collect()
FilteredProbs(sorted) == SelectSeq(sorted, IsPositive)

\* The orders in which a HashMap holding these entries may iterate.
IterationOrders(filtered) ==
    {[i \in 1..Len(filtered) |-> filtered[p[i]]] : p \in Perms(1..Len(filtered))}

\* map_probs.values().sum()
NormalizingFactor(it) == SumSeq([i \in 1..Len(it) |-> it[i].v])

\* map_probs.into_iter().map(|(k, v)| (k, v / normalizing_factor)).collect()
NormalizedProbs(it) ==
    [i \in 1..Len(it) |-> [k |-> it[i].k, v |-> TDiv(it[i].v * PScale, NormalizingFactor(it))]]

\* The sampling loop: subtract each probability from rv, stop at the first
\* behaviour where rv <= 0; chosen_behaviour starts as the last entry.
RECURSIVE WalkFrom(_, _, _)
WalkFrom(np, rv, i) ==
    IF i > Len(np) THEN np[Len(np)].k
    ELSE IF rv - np[i].v <= 0 THEN np[i].k
    ELSE WalkFrom(np, rv - np[i].v, i + 1)

WalkFirst(np, rv) == np[1].k

Walk(np, rv) == WalkFrom(np, rv, 1)

\* The values rng.gen::<f64>() can return: the grid points of [0, 1).
RandomValues == 0..(PScale - 1)

\* Which arm of the two nested matches is taken for the sorted scores.
Branch(sorted) ==
    IF sorted = <<>> THEN "panic"
    ELSE IF sorted[Len(sorted)].v <= 0 THEN "nonpositive"
    ELSE IF Len(FilteredProbs(sorted)) = 1 THEN "single"
    ELSE "multiple"

\* The behaviour passed to agent.set_action, given the iteration order of
\* map_probs and the value drawn (both used only in the "multiple" arm).
Chosen(sorted, it, rv) ==
    IF Branch(sorted) = "nonpositive" THEN sorted[Len(sorted)].k
    ELSE IF Branch(sorted) = "single" THEN FilteredProbs(sorted)[1].k
    ELSE Walk(NormalizedProbs(it), rv)

\* The locals of one agent_perform_action call.
Selection(table, acts, a, t, hs, bs, it, rv) ==
    LET unsorted == UnnormalizedProbs(table, acts, t, hs, bs)
        sorted   == SortByScore(unsorted)
        br       == Branch(sorted)
    IN  [agent    |-> a,
         time     |-> t,
         scores   |-> unsorted,
         sorted   |-> sorted,
         branch   |-> br,
         iter     |-> IF br = "multiple" THEN it ELSE <<>>,
         probs    |-> IF br = "multiple" THEN NormalizedProbs(it) ELSE <<>>,
         rv       |-> IF br = "multiple" THEN Some(rv) ELSE None,
         chosen   |-> IF br = "panic" THEN None ELSE Some(Chosen(sorted, it, rv))]

\* No agent_perform_action call is in progress or has just returned.
NoSelection ==
    [agent |-> 0, time |-> 0, scores |-> <<>>, sorted |-> <<>>, branch |-> "none",
     iter |-> <<>>, probs |-> <<>>, rv |-> None, chosen |-> None]

\* ------------------------------------------------------------ the inputs
Ids(n) == [i \in 1..n |-> i]

\* Every agent is a friend of every other agent, with the same weight.
AllFriends(nA, w) == [a \in 1..nA |-> [f \in (1..nA) \ {a} |-> w]]

\* The output file before anything is written to it.
NothingWritten == [state |-> "empty", specs |-> <<>>]

\* The specs main has read are locals of main; Runner does not see them.
NoRecords == [behaviours |-> <<>>, beliefs |-> <<>>, agents |-> <<>>, prs |-> <<>>]

\* State of the process once the inputs are loaded and Runner is built.
Loaded ==
    /\ pc = "Initialised"
    /\ records = NoRecords
    /\ time = start_time
    /\ ai = 1
    /\ bi = 1
    /\ order = agents
    /\ draws = 0
    /\ sel = NoSelection
    /\ output = NothingWritten
    /\ snap = [actions |-> actions, activations |-> activations]
    /\ phaseDraws = <<>>
    /\ actions2 = actions
    /\ activations2 = activations

\* Inputs that exercise the action selector: one agent without friends (its
\* activations carry over unchanged), a single tick, and a performance table
\* with weights of either sign from which at most one pair is absent.
InitSelector ==
    /\ agents = Ids(1)
    /\ \E nB \in 0..MaxBeliefs, nH \in 0..MaxBehaviours :
          /\ beliefs = Ids(nB)
          /\ behaviours = Ids(nH)
    /\ start_time = StartTime
    /\ end_time = StartTime
    /\ friends = AllFriends(1, Scale)
    /\ deltas = [a \in Range(agents) |-> EmptyMap]
    /\ perceptions = [b \in Range(beliefs) |-> EmptyMap]
    /\ relationships = [b \in Range(beliefs) |-> EmptyMap]
    /\ \E absent \in SUBSET (Range(beliefs) \X Range(behaviours)) :
          /\ Cardinality(absent) <= 1
          /\ prs \in [(Range(beliefs) \X Range(behaviours)) \ absent -> {-1, 1}]
    /\ \E missing \in BOOLEAN :
          activations \in [Range(agents) ->
              [{StartTime - 1} ->
                  [{x \in Range(beliefs) : ~(missing /\ x = Len(beliefs))} -> {-Scale, 1}]]]
    /\ actions = [a \in Range(agents) |-> EmptyMap]
    /\ Loaded

\* Inputs of a population run: agents that are friends of each other, beliefs
\* that perceive the behaviours and relate to each other, at least one
\* behaviour.
InitPopulation ==
    /\ \E nA \in 0..MaxAgents, nB \in 0..MaxBeliefs, nH \in 1..MaxBehaviours :
          /\ agents = Ids(nA)
          /\ beliefs = Ids(nB)
          /\ behaviours = Ids(nH)
    /\ start_time = StartTime
    /\ end_time \in (StartTime - 1)..(StartTime + MaxTicks - 1)
    /\ \E w \in {-Scale, Scale} :
          /\ friends = AllFriends(Len(agents), w)
          /\ relationships = [b \in Range(beliefs) |-> [o \in Range(beliefs) \ {b} |-> -w]]
    /\ deltas = [a \in Range(agents) |-> [b \in Range(beliefs) |-> Scale]]
    /\ perceptions = [b \in Range(beliefs) |->
                        [h \in Range(behaviours) |-> IF (b + h) % 2 = 0 THEN Scale ELSE -Scale]]
    /\ \E p \in {-1, 1} :
          prs = [k \in Range(beliefs) \X Range(behaviours) |-> IF k[2] = 1 THEN -p ELSE p]
    /\ \E v \in {-1, Scale}, missing \in BOOLEAN :
          activations = [a \in Range(agents) |->
              [t \in {StartTime - 1} |->
                  [b \in {x \in Range(beliefs) : ~(missing /\ a = Len(agents) /\ x = Len(beliefs))}
                      |-> IF b = 1 THEN v ELSE Scale]]]
    /\ \E acting \in BOOLEAN :
          actions = [a \in Range(agents) |->
              [t \in {x \in {StartTime - 1} : acting /\ Len(behaviours) > 0}
                  |-> ((a - 1) % Len(behaviours)) + 1]]
    /\ Loaded

Init == InitPopulation \/ InitSelector

\* ------------------------------------------------------------ Runner::run
\* perceive_beliefs has gone through every agent and belief.
PerceiveDoneEarly == ai > 1 \/ Len(agents) = 0 \/ Len(beliefs) = 0

PerceiveDone == ai > Len(agents) \/ Len(beliefs) = 0

\* The state handed to a phase when it begins.
Snapshot == [actions |-> actions, activations |-> activations]

\* run: tick_between(start_time, end_time) enters its first iteration, or
\* skips the loop when the range is empty.
StartWith(ord) ==
    /\ pc = "Initialised"
    /\ IF start_time <= end_time
       THEN /\ pc' = "Perceiving"
            /\ order' = ord
       ELSE /\ pc' = "Finalising"
            /\ order' = order
    /\ time' = start_time
    /\ ai' = 1
    /\ bi' = 1
    /\ snap' = Snapshot
    /\ UNCHANGED <<inputVars, actions, activations, draws, sel, output, phaseDraws>>

\* The agent an iteration over config.agents_mut is at.
CurrentAgentFirst(ord, i) == ord[1]

CurrentAgent(ord, i) == ord[i]

\* update_activation(time, belief, ..) stores its result in the row of `time`.
WriteActivationBefore(acts, t, b, v) == set_activation(acts, t - 1, b, v)

WriteActivation(acts, t, b, v) == set_activation(acts, t, b, v)

\* One iteration of the inner loop of perceive_beliefs: update_activation
\* for the current agent and belief, unwrapped.
Perceive ==
    /\ pc = "Perceiving"
    /\ ~PerceiveDone
    /\ LET a   == CurrentAgent(order, ai)
           b   == beliefs[bi]
           new == NewActivation(activations[a], friends[a], actions, time, b,
                                relationships[b], perceptions[b], beliefs)
       IN  IF new = None
           THEN /\ pc' = "Panicked"
                /\ UNCHANGED <<activations, ai, bi>>
           ELSE /\ activations' = [activations EXCEPT
                                      ![a] = WriteActivation(@, time, b, Unwrap(new))]
                /\ IF bi < Len(beliefs)
                   THEN bi' = bi + 1 /\ ai' = ai
                   ELSE bi' = 1 /\ ai' = ai + 1
                /\ pc' = pc
    /\ UNCHANGED <<inputVars, actions, time, order, draws, sel, output, snap, phaseDraws>>

\* tick: perceive_beliefs has returned, perform_actions begins.
PerceiveEndWith(ord) ==
    /\ pc = "Perceiving"
    /\ PerceiveDone
    /\ pc' = "Acting"
    /\ ai' = 1
    /\ bi' = 1
    /\ order' = ord
    /\ snap' = Snapshot
    /\ phaseDraws' = <<>>
    /\ UNCHANGED <<inputVars, actions, activations, time, draws, sel, output>>

\* agent.set_action(time, Some(chosen)), the last statement of every arm.
WriteActionBefore(acts, t, chosen) == set_action(acts, t - 1, chosen)

WriteAction(acts, t, chosen) == set_action(acts, t, chosen)

\* One iteration of perform_actions: agent_perform_action for the current agent.
Act ==
    /\ pc = "Acting"
    /\ ai <= Len(agents)
    /\ LET a      == CurrentAgent(order, ai)
           sorted == SortByScore(UnnormalizedProbs(prs, activations[a], time, behaviours, beliefs))
           br     == Branch(sorted)
       IN  IF br = "panic"
           THEN /\ pc' = "Panicked"
                /\ sel' = Selection(prs, activations[a], a, time, behaviours, beliefs, <<>>, 0)
                /\ UNCHANGED <<actions, ai, draws, phaseDraws>>
           ELSE \E it \in (IF br = "multiple" THEN IterationOrders(FilteredProbs(sorted))
                                               ELSE {<<>>}),
                   rv \in (IF br = "multiple" THEN RandomValues ELSE {0}) :
                /\ sel' = Selection(prs, activations[a], a, time, behaviours, beliefs, it, rv)
                /\ actions' = [actions EXCEPT ![a] = WriteAction(@, time, Chosen(sorted, it, rv))]
                /\ draws' = IF br = "multiple" THEN draws + 1 ELSE draws
                /\ phaseDraws' = IF br = "multiple"
                                 THEN Append(phaseDraws, [agent |-> a, rv |-> rv, iter |-> it])
                                 ELSE phaseDraws
                /\ ai' = ai + 1
                /\ pc' = pc
    /\ UNCHANGED <<inputVars, activations, time, bi, order, output, snap>>

\* for t in start..=end: whether another iteration follows the one for t.
LoopContinuesPastEnd(t, end) == t <= end

LoopContinues(t, end) == t < end

\* tick_between: tick(t) has returned; the loop goes on to t + 1 or ends.
ActEndWith(ord) ==
    /\ pc = "Acting"
    /\ ai > Len(agents)
    /\ IF LoopContinues(time, end_time)
       THEN /\ pc' = "Perceiving"
            /\ time' = time + 1
            /\ order' = ord
       ELSE /\ pc' = "Finalising"
            /\ time' = time
            /\ order' = order
    /\ ai' = 1
    /\ bi' = 1
    /\ sel' = NoSelection
    /\ snap' = Snapshot
    /\ phaseDraws' = <<>>
    /\ UNCHANGED <<inputVars, actions, activations, draws, output>>

\* AgentSpec::from_agent: the five tables of one agent.
from_agent(a) ==
    [uuid |-> a, actions |-> actions[a], activations |-> activations[a],
     deltas |-> deltas[a], friends |-> friends[a]]

\* run gets to serialize_agents only when tick_between has returned.
SerializeReachedAfterPanic == pc \in {"Finalising", "Panicked"}

SerializeReached == pc = "Finalising"

\* serialize_agents: every agent converted and the whole sequence written;
\* run then returns Ok.
Serialize ==
    /\ SerializeReached
    /\ output' = [state |-> "complete",
                  specs |-> [i \in 1..Len(agents) |-> from_agent(agents[i])]]
    /\ pc' = "Done"
    /\ UNCHANGED <<inputVars, actions, activations, time, ai, bi, order, draws, sel, snap,
                   phaseDraws>>

\* serialize_agents: serde_json::to_writer returns an error, which run
\* propagates with `?`; what reached the file is not known.
SerializeFails ==
    /\ pc = "Finalising"
    /\ output' \in {NothingWritten, [state |-> "truncated", specs |-> <<>>]}
    /\ pc' = "Failed"
    /\ UNCHANGED <<inputVars, actions, activations, time, ai, bi, order, draws, sel, snap,
                   phaseDraws>>

twinVars == <<actions2, activations2>>

\* The steps of one run; the agents are iterated in the order of config.agents.
Start == StartWith(agents) /\ UNCHANGED twinVars

PerceiveStep == Perceive /\ UNCHANGED twinVars

PerceiveEnd == PerceiveEndWith(agents) /\ UNCHANGED twinVars

ActStep == Act /\ UNCHANGED twinVars

ActEnd == ActEndWith(agents) /\ UNCHANGED twinVars

Finalise == Serialize /\ UNCHANGED twinVars

FinaliseFails == SerializeFails /\ UNCHANGED twinVars

Next ==
    \/ Start
    \/ PerceiveStep
    \/ PerceiveEnd
    \/ ActStep
    \/ ActEnd
    \/ Finalise
    \/ FinaliseFails

Spec == Init /\ [][Next]_vars

Terminated == pc \in {"Done", "Failed", "Panicked"}

\* ------------------------------------------------- two runs, same input
\* perceive_beliefs of the second run, in step with the first.
TwinPerceiveStep ==
    /\ Perceive
    /\ LET a   == CurrentAgent(order, ai)
           b   == beliefs[bi]
           new == NewActivation(activations2[a], friends[a], actions2, time, b,
                                relationships[b], perceptions[b], beliefs)
       IN  activations2' = IF new = None THEN activations2
                           ELSE [activations2 EXCEPT
                                    ![a] = WriteActivation(@, time, b, Unwrap(new))]
    /\ actions2' = actions2

\* agent_perform_action of the second run, in step with the first; it has
\* its own map_probs and takes its own value from thread_rng().
TwinActStep ==
    /\ Act
    /\ LET a      == CurrentAgent(order, ai)
           sorted == SortByScore(UnnormalizedProbs(prs, activations2[a], time, behaviours, beliefs))
           br     == Branch(sorted)
       IN  IF br = "panic"
           THEN actions2' = actions2
           ELSE \E it \in (IF br = "multiple" THEN IterationOrders(FilteredProbs(sorted))
                                               ELSE {<<>>}),
                   rv \in (IF br = "multiple" THEN RandomValues ELSE {0}) :
                actions2' = [actions2 EXCEPT ![a] = WriteAction(@, time, Chosen(sorted, it, rv))]
    /\ activations2' = activations2

TwinNext ==
    \/ Start
    \/ TwinPerceiveStep
    \/ PerceiveEnd
    \/ TwinActStep
    \/ ActEnd
    \/ Finalise
    \/ FinaliseFails

\* Two runs of the program on the same input, side by side.
TwinSpec == Init /\ [][TwinNext]_vars

\* ------------------------------------------- phases in any agent order
AgentOrders == Perms(Range(agents))

AnyOrderStart == \E ord \in AgentOrders : StartWith(ord) /\ UNCHANGED twinVars

AnyOrderPerceiveEnd == \E ord \in AgentOrders : PerceiveEndWith(ord) /\ UNCHANGED twinVars

AnyOrderActEnd == \E ord \in AgentOrders : ActEndWith(ord) /\ UNCHANGED twinVars

AnyOrderNext ==
    \/ AnyOrderStart
    \/ PerceiveStep
    \/ AnyOrderPerceiveEnd
    \/ ActStep
    \/ AnyOrderActEnd
    \/ Finalise
    \/ FinaliseFails

\* The run with each phase going through the agents in an arbitrary order.
AnyOrderSpec == Init /\ [][AnyOrderNext]_vars

\* perceive_beliefs over the agents from position i of config.agents on and,
\* for the agent at i, the beliefs from position j on; a failed update leaves
\* the rest undone.
RECURSIVE PerceiveFrom(_, _, _, _, _)
PerceiveFrom(acts, allActions, t, i, j) ==
    IF i > Len(agents) \/ Len(beliefs) = 0 THEN acts
    ELSE LET a   == agents[i]
             b   == beliefs[j]
             new == NewActivation(acts[a], friends[a], allActions, t, b,
                                  relationships[b], perceptions[b], beliefs)
         IN  IF new = None THEN acts
             ELSE PerceiveFrom([acts EXCEPT ![a] = WriteActivation(@, t, b, Unwrap(new))],
                               allActions, t,
                               IF j < Len(beliefs) THEN i ELSE i + 1,
                               IF j < Len(beliefs) THEN j + 1 ELSE 1)

\* The whole perceive phase of tick t in the order of config.agents.
CanonicalPerceive(s, t) == PerceiveFrom(s.activations, s.actions, t, 1, 1)

\* The draw recorded for agent a in the current act phase.
DrawOf(a) == phaseDraws[CHOOSE i \in 1..Len(phaseDraws) : phaseDraws[i].agent = a]

\* perform_actions over the agents from position i of config.agents on; k is
\* the number of values taken from the generator so far. With inOrder the
\* agent that samples gets the next value of the generator, as it would in
\* that run; otherwise it gets the value it got in the recorded phase.
RECURSIVE ActFrom(_, _, _, _, _, _)
ActFrom(acts, allActivations, t, i, k, inOrder) ==
    IF i > Len(agents) THEN acts
    ELSE LET a      == agents[i]
             sorted == SortByScore(UnnormalizedProbs(prs, allActivations[a], t,
                                                     behaviours, beliefs))
             br     == Branch(sorted)
             it     == IF br = "multiple" THEN DrawOf(a).iter ELSE <<>>
             rv     == IF br # "multiple" THEN 0
                       ELSE IF inOrder THEN phaseDraws[k + 1].rv ELSE DrawOf(a).rv
         IN  IF br = "panic" THEN acts
             ELSE ActFrom([acts EXCEPT ![a] = WriteAction(@, t, Chosen(sorted, it, rv))],
                          allActivations, t, i + 1,
                          IF br = "multiple" THEN k + 1 ELSE k, inOrder)

\* The whole act phase of tick t in the order of config.agents.
CanonicalAct(s, t, inOrder) == ActFrom(s.actions, s.activations, t, 1, 0, inOrder)

PerceivePhaseOver == pc = "Perceiving" /\ PerceiveDone

ActPhaseOver == pc = "Acting" /\ ai > Len(agents)

\* ------------------------------------------------------------ properties
Ticks == start_time..end_time

HasAllActivations(a, t) ==
    \A b \in Range(beliefs) : IsSome(get_activation(activations[a], t, b))

\* C1: within a tick every activation is written before any action is
\* chosen: a step that changes some agent's actions is taken only when every
\* agent already has an activation at the current tick for every belief, and
\* it writes the action of the current tick only.
C1_ActivationsBeforeActions ==
    [][\A a \in Range(agents) :
          actions'[a] # actions[a] =>
             /\ \A x \in Range(agents) : HasAllActivations(x, time)
             /\ \A t \in DOMAIN actions'[a] :
                   t # time => t \in DOMAIN actions[a] /\ actions'[a][t] = actions[a][t]]_vars

\* The first of two agents has acted in a tick that has beliefs.
C1_Witness ==
    /\ pc = "Acting"
    /\ ai = 2
    /\ Len(agents) = 2
    /\ Len(beliefs) = 2
    /\ time \in DOMAIN actions[order[1]]

\* Tick t has been run to its end.
Completed(t) ==
    /\ t \in Ticks
    /\ pc # "Initialised"
    /\ \/ t < time
       \/ t = time /\ pc \in {"Finalising", "Done", "Failed"}
       \/ t = time /\ pc = "Acting" /\ ai > Len(agents)

\* C2: once tick t of [start, end] has completed, every agent has an
\* activation at t for every loaded belief and an action at t that is one of
\* the loaded behaviours, in that state and in every later one.
C2_TickComplete ==
    \A t \in Ticks : Completed(t) =>
        \A a \in Range(agents) :
            /\ HasAllActivations(a, t)
            /\ IsSome(get_action(actions[a], t))
            /\ actions[a][t] \in Range(behaviours)

\* A run of two ticks over two agents, two beliefs and two behaviours ended.
C2_Witness ==
    /\ pc = "Done"
    /\ end_time = start_time + 1
    /\ Len(agents) = 2
    /\ Len(beliefs) = 2
    /\ Len(behaviours) >= 2
    /\ Completed(start_time) /\ Completed(end_time)

\* C3: every activation written at a tick of [start, end] lies in [-1, 1].
C3_ActivationBounded ==
    \A a \in Range(agents) : \A t \in DOMAIN activations[a] :
        t \in Ticks => \A b \in DOMAIN activations[a][t] :
            -Scale <= activations[a][t][b] /\ activations[a][t][b] <= Scale

\* An activation was written as +1 where the unclamped sum exceeds +1.
C3_Witness ==
    /\ pc = "Perceiving"
    /\ \E a \in Range(agents) : \E b \in Range(beliefs) :
          /\ IsSome(get_activation(activations[a], time, b))
          /\ activations[a][time][b] = Scale
          /\ activations[a][time - 1][b]
                + ActivationChange(activations[a], friends[a], actions, time - 1,
                                   relationships[b], perceptions[b], beliefs) > Scale

AllActed(t) == \A a \in Range(agents) : IsSome(get_action(actions[a], t))

AllPerceived(t) == \A a \in Range(agents) : HasAllActivations(a, t)

\* The phase changes of a run that is not cut short.
PhaseStepUncut ==
    \/ pc = "Initialised" /\ start_time <= end_time
          /\ pc' = "Perceiving" /\ time' = start_time
    \/ pc = "Initialised" /\ start_time > end_time /\ pc' = "Finalising"
    \/ pc = "Perceiving" /\ pc' = "Perceiving" /\ time' = time
    \/ pc = "Perceiving" /\ pc' = "Acting" /\ time' = time /\ AllPerceived(time)
    \/ pc = "Acting" /\ pc' = "Acting" /\ time' = time
    \/ pc = "Acting" /\ time < end_time /\ AllActed(time)
          /\ pc' = "Perceiving" /\ time' = time + 1
    \/ pc = "Acting" /\ time = end_time /\ AllActed(time)
          /\ pc' = "Finalising" /\ time' = time
    \/ pc = "Finalising" /\ pc' = "Done" /\ time' = time

\* The ways a run stops early: a panic while perceiving or acting, an error
\* returned while finalising.
PhaseStepCut ==
    \/ pc \in {"Perceiving", "Acting"} /\ pc' = "Panicked" /\ time' = time
    \/ pc = "Finalising" /\ pc' = "Failed" /\ time' = time

\* An upper bound on the number of steps the run can still take.
StepsLeft ==
    LET perTick == Len(agents) * Len(beliefs) + Len(agents) + 2
        later   == IF end_time > time THEN (end_time - time) * perTick ELSE 0
    IN  CASE pc = "Initialised" -> 2 + (IF end_time >= start_time
                                         THEN (end_time - start_time + 1) * perTick ELSE 0)
          [] pc = "Perceiving"  -> 1 + later + Len(agents) + 1
                                     + (IF PerceiveDone THEN 0
                                        ELSE (Len(agents) - ai) * Len(beliefs)
                                             + (Len(beliefs) - bi + 1)) + 1
          [] pc = "Acting"      -> 1 + later + (Len(agents) - ai + 1) + 1
          [] pc = "Finalising"  -> 1
          [] OTHER              -> 0

\* C4 as stated: every step of a run is one of the phase changes Perceiving(t)
\* to Acting(t), Acting(t) to Perceiving(t + 1) or, at the end, to Finalising,
\* and Finalising to Done, so that a run can only stop in Done.
C4_AlwaysReachesDone == [][PhaseStepUncut]_vars

\* C4, amended: the phases follow each other in that order, each tick once
\* and ascending, Finalising only after Acting(end) and no tick after it; the
\* run takes a bounded number of steps and ends in Done with every tick run,
\* unless it is cut short by a panic (Panicked) or by an error from the writer
\* (Failed), after which no phase is entered.
C4_PhaseOrder ==
    /\ [][/\ PhaseStepUncut \/ PhaseStepCut
          /\ StepsLeft' < StepsLeft
          /\ pc' = "Done" => \A t \in Ticks : Completed(t)']_vars
    /\ [](StepsLeft >= 0 /\ (StepsLeft = 0 <=> Terminated))

\* A run of more than one tick with at least one agent reached Done.
C4_Witness ==
    /\ pc = "Done"
    /\ output.state = "complete"
    /\ time = end_time
    /\ end_time > start_time
    /\ Len(agents) >= 1

\* ---------------------------------------------- action selector properties
\* An agent_perform_action call has just run (and did not panic).
Selected == sel.branch \in {"nonpositive", "single", "multiple"}

\* The beliefs that count towards the score of behaviour h for the agent and
\* tick of the last selection: the pair is in the performance table and the
\* agent has an activation of the belief at that tick.
Contributing(h) ==
    {b \in Range(beliefs) :
        /\ <<b, h>> \in DOMAIN prs
        /\ sel.time \in DOMAIN activations[sel.agent]
        /\ b \in DOMAIN activations[sel.agent][sel.time]}

\* The score of h as the claim defines it.
ClaimedScore(h) ==
    LET B == Contributing(h)
    IN  SumOver(B, [b \in B |-> prs[<<b, h>>] * activations[sel.agent][sel.time][b]])

ScoreOf(h) == (CHOOSE e \in Range(sel.scores) : e.k = h).v

MaxScore == CHOOSE m \in {e.v : e \in Range(sel.scores)} : \A e \in Range(sel.scores) : e.v <= m

PositiveBehaviours == {e.k : e \in {x \in Range(sel.scores) : x.v > 0}}

\* The position in config.behaviours of the last behaviour with the top score.
LastTop == CHOOSE i \in 1..Len(sel.scores) :
              /\ sel.scores[i].v = MaxScore
              /\ \A j \in 1..Len(sel.scores) : sel.scores[j].v = MaxScore => j <= i

DrewFor(a) == \E i \in 1..Len(phaseDraws) : phaseDraws[i].agent = a

\* C6: when every score is <= 0 the chosen action is the tail of the
\* ascending sort: a behaviour with the largest score and, among those tied
\* for it, the one that sorts last (the last of them in the behaviour
\* sequence, the sort being stable); no random number is drawn.
C6_AllNonPositive ==
    (Selected /\ PositiveBehaviours = {}) =>
        /\ sel.chosen = Some(sel.sorted[Len(sel.sorted)].k)
        /\ ScoreOf(Unwrap(sel.chosen)) = MaxScore
        /\ sel.chosen = Some(sel.scores[LastTop].k)
        /\ actions[sel.agent][sel.time] = Unwrap(sel.chosen)
        /\ sel.rv = None
        /\ ~DrewFor(sel.agent)

\* No score is positive, two behaviours tie for the largest score and a third
\* one, later in the sequence, scores less.
C6_Witness ==
    /\ Selected
    /\ PositiveBehaviours = {}
    /\ Len(sel.scores) = 3
    /\ sel.scores[1].v = sel.scores[2].v
    /\ sel.scores[3].v < sel.scores[1].v

\* C7: when exactly one behaviour has a score > 0 it is the one written to
\* actions[t], whatever the other scores are, and no random number is drawn.
C7_SinglePositive ==
    (Selected /\ Cardinality(PositiveBehaviours) = 1) =>
        /\ Unwrap(sel.chosen) \in PositiveBehaviours
        /\ actions[sel.agent][sel.time] \in PositiveBehaviours
        /\ sel.rv = None
        /\ ~DrewFor(sel.agent)

\* One behaviour scores > 0, another exactly 0 and a third < 0.
C7_Witness ==
    /\ Selected
    /\ Cardinality(PositiveBehaviours) = 1
    /\ \E e \in Range(sel.scores) : e.v = 0
    /\ \E e \in Range(sel.scores) : e.v < 0

\* The sum of the first i probabilities of the iteration.
RECURSIVE Cumulative(_, _)
Cumulative(np, i) == IF i = 0 THEN 0 ELSE np[i].v + Cumulative(np, i - 1)

\* C8: with two or more scores > 0 the selector normalises exactly the
\* strictly positive scores, draws u in [0, 1) and walks the distribution in
\* its iteration order subtracting each probability from u; it chooses the
\* first behaviour at which u <= 0, or the last of the iteration if u stays
\* > 0, and the choice always has a strictly positive score.
C8_MultiplePositive ==
    (Selected /\ Cardinality(PositiveBehaviours) >= 2) =>
        LET n    == Len(sel.iter)
            u    == Unwrap(sel.rv)
            hits == {i \in 1..n : u - Cumulative(sel.probs, i) <= 0}
        IN  /\ sel.branch = "multiple"
            /\ {e.k : e \in Range(sel.iter)} = PositiveBehaviours
            /\ n = Cardinality(PositiveBehaviours)
            /\ \A i \in 1..n :
                  /\ sel.iter[i].v = ScoreOf(sel.iter[i].k)
                  /\ sel.probs[i].k = sel.iter[i].k
                  /\ sel.probs[i].v = TDiv(sel.iter[i].v * PScale, SumOver(PositiveBehaviours,
                                              [h \in PositiveBehaviours |-> ScoreOf(h)]))
            /\ u \in 0..(PScale - 1)
            /\ sel.chosen = Some(sel.probs[IF hits = {} THEN n
                                           ELSE CHOOSE i \in hits : \A j \in hits : i <= j].k)
            /\ Unwrap(sel.chosen) \in PositiveBehaviours
            /\ actions[sel.agent][sel.time] = Unwrap(sel.chosen)
            /\ DrewFor(sel.agent)

\* Three positive scores, and the draw is left > 0 after the whole walk, so
\* the last behaviour of the iteration is chosen.
C8_Witness ==
    /\ Selected
    /\ Cardinality(PositiveBehaviours) = 3
    /\ Unwrap(sel.rv) - Cumulative(sel.probs, Len(sel.probs)) > 0
    /\ sel.chosen = Some(sel.iter[3].k)

\* ------------------------------------------- determinism and agent order
\* C9: two runs on identical input produce identical output: the same
\* actions and activations of every agent at every tick.
C9_SameOutput == pc = "Done" => actions2 = actions /\ activations2 = activations

\* C10 as stated: a perceive phase and then an act phase that go through the
\* agents in any order leave the same activations and actions as the phases
\* in the order of config.agents, the generator handing out the same values
\* in the order they are asked for.
C10_AnyOrderSameState ==
    /\ PerceivePhaseOver =>
          activations = CanonicalPerceive(snap, time) /\ actions = snap.actions
    /\ ActPhaseOver =>
          actions = CanonicalAct(snap, time, TRUE) /\ activations = snap.activations

\* C10, amended: the perceive phase in any agent order leaves the same
\* activations as in the order of config.agents, and the act phase in any
\* agent order leaves the same actions provided every agent that samples is
\* given the same random value and iteration order as in the canonical order.
C10_AnyOrderSameDraws ==
    /\ PerceivePhaseOver =>
          activations = CanonicalPerceive(snap, time) /\ actions = snap.actions
    /\ ActPhaseOver =>
          actions = CanonicalAct(snap, time, FALSE) /\ activations = snap.activations

\* An act phase that went through two agents in reverse order has ended, both
\* agents sampled and got different values.
C10_Witness ==
    /\ ActPhaseOver
    /\ Len(agents) = 2
    /\ order = <<2, 1>>
    /\ Len(phaseDraws) = 2
    /\ phaseDraws[1].rv # phaseDraws[2].rv
    /\ time = start_time + 1

\* ------------------------------------------------------------------ main
\* An identifier that no record of the input files declares.
Unknown == 0

Restrict(m, S) == [k \in (DOMAIN m) \cap S |-> m[k]]

\* The records of behaviours.json: nH behaviours.
BehaviourRecords(nH) == [h \in 1..nH |-> [uuid |-> h]]

\* The keys 1..n, and Unknown as well when the record is the one with the
\* dangling reference.
Keys(n, dangling) == (1..n) \cup (IF dangling THEN {Unknown} ELSE {})

\* The records of beliefs.json: every belief perceives every behaviour and is
\* related to every belief; with d = "perception" or "relationship" the first
\* belief also names an identifier that is not declared.
BeliefRecords(nB, nH, d) ==
    [b \in 1..nB |->
        [uuid |-> b,
         perceptions |-> [h \in Keys(nH, d = "perception" /\ b = 1) |-> Scale],
         relationships |-> [o \in Keys(nB, d = "relationship" /\ b = 1) |-> -Scale]]]

\* The records of agents.json: every agent has an action and an activation of
\* every belief at the time before the start, a delta for every belief and
\* every other agent as a friend; with d = "action", "activation", "delta"
\* or "friend" the last agent also names an identifier that is not declared.
AgentRecords(nA, nB, nH, d) ==
    [a \in 1..nA |->
        [uuid |-> a,
         actions |-> [t \in {StartTime - 1} |-> IF d = "action" /\ a = nA THEN Unknown ELSE 1],
         activations |-> [t \in {StartTime - 1} |->
                            [b \in Keys(nB, d = "activation" /\ a = nA) |-> 1]],
         deltas |-> [b \in Keys(nB, d = "delta" /\ a = nA) |-> Scale],
         friends |-> [f \in Keys(nA, d = "friend" /\ a = nA) \ {a} |-> Scale]]]

\* The records prs.json can hold: a belief, a behaviour and a value.
PrsRecordSet(nB, nH) ==
    [belief_uuid : {1, nB}, behaviour_uuid : {1, nH}, value : {-1, 1}]

\* Sequences of at most n elements of S.
SeqUpTo(S, n) == UNION {[1..k -> S] : k \in 0..n}

\* The record after the others in prs.json that names an undeclared belief
\* (d = "prs_belief") or behaviour (d = "prs_behaviour").
DanglingPrs(d) ==
    IF d = "prs_belief" THEN <<[belief_uuid |-> Unknown, behaviour_uuid |-> 1, value |-> 1]>>
    ELSE IF d = "prs_behaviour" THEN <<[belief_uuid |-> 1, behaviour_uuid |-> Unknown, value |-> 1]>>
    ELSE <<>>

ReferenceKinds == {"perception", "relationship", "action", "activation", "delta",
                   "friend", "prs_belief", "prs_behaviour"}

\* runner variables: main never gets to them
runVars == <<time, ai, bi, order, draws, sel, output, snap, phaseDraws,
             actions2, activations2>>

\* main before the first file is read: the four files parse to records
\* that are consistent, or hold one dangling reference of one kind.
InitMain ==
    /\ pc = "ReadingBehaviours"
    /\ start_time = StartTime
    /\ end_time = StartTime
    /\ \E nA \in 1..MaxAgents, nB \in 1..MaxBeliefs, nH \in {1, MaxBehaviours},
          d \in ReferenceKinds \cup {"none"} :
          \E ps \in SeqUpTo(PrsRecordSet(nB, nH), IF d = "none" THEN MaxRecords ELSE 1) :
             records = [behaviours |-> BehaviourRecords(nH),
                        beliefs |-> BeliefRecords(nB, nH, d),
                        agents |-> AgentRecords(nA, nB, nH, d),
                        prs |-> ps \o DanglingPrs(d)]
    /\ behaviours = <<>>
    /\ beliefs = <<>>
    /\ agents = <<>>
    /\ prs = EmptyMap
    /\ perceptions = EmptyMap
    /\ relationships = EmptyMap
    /\ friends = EmptyMap
    /\ deltas = EmptyMap
    /\ actions = EmptyMap
    /\ activations = EmptyMap
    /\ time = start_time
    /\ ai = 1
    /\ bi = 1
    /\ order = <<>>
    /\ draws = 0
    /\ sel = NoSelection
    /\ output = NothingWritten
    /\ snap = [actions |-> EmptyMap, activations |-> EmptyMap]
    /\ phaseDraws = <<>>
    /\ actions2 = EmptyMap
    /\ activations2 = EmptyMap

\* BehaviourSpec::to_basic_behaviour
to_basic_behaviour(spec) == spec.uuid

\* read_behaviours_json, and config.behaviours set from its result
ReadBehaviours ==
    /\ pc = "ReadingBehaviours"
    /\ behaviours' = [i \in 1..Len(records.behaviours) |->
                         to_basic_behaviour(records.behaviours[i])]
    /\ pc' = "ReadingBeliefs"
    /\ UNCHANGED <<beliefs, agents, prs, start_time, end_time, perceptions, relationships,
                   friends, deltas, actions, activations, records, runVars>>

\* BeliefSpec::to_basic_belief: the perceptions of the new belief. It goes
\* through the loaded behaviours and takes the value the spec has for each.
to_basic_belief(spec, behs) == Restrict(spec.perceptions, Range(behs))

\* read_belief_json, and config.beliefs set from its result
ReadBeliefs ==
    /\ pc = "ReadingBeliefs"
    /\ beliefs' = [i \in 1..Len(records.beliefs) |-> records.beliefs[i].uuid]
    /\ perceptions' = [b \in {records.beliefs[i].uuid : i \in 1..Len(records.beliefs)} |->
                          LET spec == CHOOSE x \in Range(records.beliefs) : x.uuid = b
                          IN  to_basic_belief(spec, behaviours)]
    /\ relationships' = [b \in {records.beliefs[i].uuid : i \in 1..Len(records.beliefs)} |->
                            EmptyMap]
    /\ pc' = "LinkingBeliefs"
    /\ UNCHANGED <<behaviours, agents, prs, start_time, end_time, friends, deltas,
                   actions, activations, records, runVars>>

\* BeliefSpec::link_belief_relationships: the relationships of the spec's
\* belief. It goes through the spec's entries and sets those whose key is a
\* loaded belief.
link_belief_relationships(spec, bels) == Restrict(spec.relationships, Range(bels))

\* belief_specs.iter().for_each(link_belief_relationships) in main
LinkBeliefs ==
    /\ pc = "LinkingBeliefs"
    /\ relationships' = [b \in Range(beliefs) |->
                            LET spec == CHOOSE x \in Range(records.beliefs) : x.uuid = b
                            IN  link_belief_relationships(spec, beliefs)]
    /\ pc' = "ReadingAgents"
    /\ UNCHANGED <<behaviours, beliefs, agents, prs, start_time, end_time, perceptions,
                   friends, deltas, actions, activations, records, runVars>>

\* AgentSpec::to_basic_agent returns: none of its unwraps of a lookup by
\* uuid (actions, activations, deltas) meets None.
AgentResolves(spec, behs, bels) ==
    /\ \A t \in DOMAIN spec.actions : spec.actions[t] \in Range(behs)
    /\ \A t \in DOMAIN spec.activations : DOMAIN spec.activations[t] \subseteq Range(bels)
    /\ DOMAIN spec.deltas \subseteq Range(bels)

\* read_agent_json, and config.agents set from its result; the process
\* panics when a spec does not resolve.
ReadAgents ==
    /\ pc = "ReadingAgents"
    /\ IF \A i \in 1..Len(records.agents) : AgentResolves(records.agents[i], behaviours, beliefs)
       THEN LET uuids == {records.agents[i].uuid : i \in 1..Len(records.agents)}
                SpecOf(a) == CHOOSE x \in Range(records.agents) : x.uuid = a
            IN  /\ agents' = [i \in 1..Len(records.agents) |-> records.agents[i].uuid]
                /\ actions' = [a \in uuids |-> SpecOf(a).actions]
                /\ activations' = [a \in uuids |-> SpecOf(a).activations]
                /\ deltas' = [a \in uuids |-> SpecOf(a).deltas]
                /\ friends' = [a \in uuids |-> EmptyMap]
                /\ pc' = "LinkingFriends"
       ELSE /\ pc' = "LoadPanicked"
            /\ UNCHANGED <<agents, actions, activations, deltas, friends>>
    /\ UNCHANGED <<behaviours, beliefs, prs, start_time, end_time, perceptions,
                   relationships, records, runVars>>

\* AgentSpec::link_friends returns: every key of friends is a loaded agent.
FriendsResolve(spec, ags) == DOMAIN spec.friends \subseteq Range(ags)

\* agent_specs.iter().for_each(link_friends) in main. When a spec does not
\* resolve the process panics with the earlier specs linked and, of the
\* failing spec, the entries its map iterated before the unknown key.
LinkFriends ==
    /\ pc = "LinkingFriends"
    /\ LET n == Len(records.agents)
           bad == {i \in 1..n : ~FriendsResolve(records.agents[i], agents)}
       IN  IF bad = {}
           THEN /\ friends' = [a \in Range(agents) |->
                                  (CHOOSE x \in Range(records.agents) : x.uuid = a).friends]
                /\ pc' = "ReadingPrs"
           ELSE LET k == CHOOSE i \in bad : \A j \in bad : i <= j
                IN  /\ \E done \in SUBSET ((DOMAIN records.agents[k].friends) \cap Range(agents)) :
                          friends' = [a \in Range(agents) |->
                              LET i == CHOOSE j \in 1..n : records.agents[j].uuid = a
                              IN  IF i < k THEN records.agents[i].friends
                                  ELSE IF i = k THEN Restrict(records.agents[k].friends, done)
                                  ELSE EmptyMap]
                    /\ pc' = "LoadPanicked"
    /\ UNCHANGED <<behaviours, beliefs, agents, prs, start_time, end_time, perceptions,
                   relationships, deltas, actions, activations, records, runVars>>

\* One (key, value) pair collected into the HashMap: an insert.
PrsInsertKeep(table, rec) ==
    IF <<rec.belief_uuid, rec.behaviour_uuid>> \in DOMAIN table
    THEN table
    ELSE Put(table, <<rec.belief_uuid, rec.behaviour_uuid>>, rec.value)

PrsInsert(table, rec) == Put(table, <<rec.belief_uuid, rec.behaviour_uuid>>, rec.value)

\* prss.iter().map(..).collect(): the pairs inserted in the order of prss
RECURSIVE CollectPrs(_, _)
CollectPrs(table, prss) ==
    IF prss = <<>> THEN table ELSE CollectPrs(PrsInsert(table, Head(prss)), Tail(prss))

\* vec_prs_to_performance_relationships, for records that resolve
vec_prs_to_performance_relationships(prss) == CollectPrs(EmptyMap, prss)

\* Neither unwrap of vec_prs_to_performance_relationships meets None.
PrsResolves(rec, bels, behs) ==
    rec.belief_uuid \in Range(bels) /\ rec.behaviour_uuid \in Range(behs)

\* read_prs_json, and config.prs set from its result; the process panics
\* when a record does not resolve.
ReadPrs ==
    /\ pc = "ReadingPrs"
    /\ IF \A i \in 1..Len(records.prs) : PrsResolves(records.prs[i], beliefs, behaviours)
       THEN /\ prs' = vec_prs_to_performance_relationships(records.prs)
            /\ pc' = "InputsLoaded"
       ELSE /\ pc' = "LoadPanicked"
            /\ UNCHANGED prs
    /\ UNCHANGED <<behaviours, beliefs, agents, start_time, end_time, perceptions,
                   relationships, friends, deltas, actions, activations, records, runVars>>

\* A file cannot be opened or is not valid JSON: the read_*_json function
\* returns the error and main returns it.
ReadFails ==
    /\ pc \in {"ReadingBehaviours", "ReadingBeliefs", "ReadingAgents", "ReadingPrs"}
    /\ pc' = "LoadFailed"
    /\ UNCHANGED <<inputVars, actions, activations, runVars>>

\* main returns Ok(()) once config.prs is set.
MainReturns ==
    /\ pc = "InputsLoaded"
    /\ pc' = "Exited"
    /\ UNCHANGED <<inputVars, actions, activations, runVars>>

MainNext ==
    \/ ReadBehaviours
    \/ ReadBeliefs
    \/ LinkBeliefs
    \/ ReadAgents
    \/ LinkFriends
    \/ ReadPrs
    \/ ReadFails
    \/ MainReturns

MainSpec == InitMain /\ [][MainNext]_vars

\* ------------------------------------------------------ failure and frame
\* The run stopped because update_activation(..).unwrap() panicked.
PerceiveFailed == pc = "Panicked" /\ sel.branch = "none"

\* The (agent position, belief position) pairs perceive_beliefs had not
\* completed when it stopped at (ai, bi).
NotUpdated == {p \in (1..Len(agents)) \X (1..Len(beliefs)) :
                  p[1] > ai \/ (p[1] = ai /\ p[2] >= bi)}

\* C11: when the activation update fails for an (agent, tick, belief) the run
\* stops there: the failing update and every later one of the tick wrote
\* nothing, no action of that tick or a later one and no activation of a
\* later tick is written, the serialiser is not invoked and the output file
\* is left as it was; no step follows.
C11_AbortOnFailure ==
    /\ [](PerceiveFailed =>
            /\ output = NothingWritten
            /\ \A p \in NotUpdated :
                  get_activation(activations[order[p[1]]], time, beliefs[p[2]]) = None
            /\ \A a \in Range(agents) :
                  /\ \A t \in DOMAIN actions[a] : t < time
                  /\ \A t \in DOMAIN activations[a] : t <= time)
    /\ [][pc # "Panicked"]_vars

\* The update failed for the last belief of the second agent, after the
\* first agent's activations of the tick were written.
C11_Witness ==
    /\ PerceiveFailed
    /\ ai = 2
    /\ bi = 2
    /\ HasAllActivations(order[1], time)

\* The rows of a time-indexed table other than the row of time t are the same
\* in m and n.
SameExceptAt(m, n, t) ==
    /\ (DOMAIN m) \ {t} = (DOMAIN n) \ {t}
    /\ \A x \in (DOMAIN m) \ {t} : m[x] = n[x]

\* C15: a step of tick t changes, for each agent, only activations[t] and
\* actions[t]: every other activation row and action (the initial row and
\* the rows of earlier ticks included), the deltas and friends of every
\* agent, the perception and relationship table of every belief and the
\* performance table stay as they are.
C15_TickFrame ==
    [][/\ UNCHANGED inputVars
       /\ \A a \in Range(agents) :
             /\ SameExceptAt(activations[a], activations'[a], time)
             /\ SameExceptAt(actions[a], actions'[a], time)
       /\ time' # time => UNCHANGED <<actions, activations>>]_vars

\* The second tick has written an activation row and an action for two
\* agents, next to the rows of the first tick and the initial row.
C15_Witness ==
    /\ pc = "Acting"
    /\ time = start_time + 1
    /\ ai > Len(agents)
    /\ Len(agents) = 2
    /\ Len(beliefs) = 2
    /\ \A a \in Range(agents) :
          DOMAIN activations[a] = (start_time - 1)..time /\ time \in DOMAIN actions[a]

\* ------------------------------------------------------------- loading
BehaviourIds == {records.behaviours[i].uuid : i \in 1..Len(records.behaviours)}

BeliefIds == {records.beliefs[i].uuid : i \in 1..Len(records.beliefs)}

AgentIds == {records.agents[i].uuid : i \in 1..Len(records.agents)}

\* The kinds of cross-reference for which some input record names an
\* identifier that no record declares.
Unresolved ==
    {k \in ReferenceKinds :
        \/ k = "perception" /\ \E s \in Range(records.beliefs) :
                                  ~(DOMAIN s.perceptions \subseteq BehaviourIds)
        \/ k = "relationship" /\ \E s \in Range(records.beliefs) :
                                    ~(DOMAIN s.relationships \subseteq BeliefIds)
        \/ k = "action" /\ \E s \in Range(records.agents) :
                              \E t \in DOMAIN s.actions : s.actions[t] \notin BehaviourIds
        \/ k = "activation" /\ \E s \in Range(records.agents) :
                                  \E t \in DOMAIN s.activations :
                                     ~(DOMAIN s.activations[t] \subseteq BeliefIds)
        \/ k = "delta" /\ \E s \in Range(records.agents) : ~(DOMAIN s.deltas \subseteq BeliefIds)
        \/ k = "friend" /\ \E s \in Range(records.agents) : ~(DOMAIN s.friends \subseteq AgentIds)
        \/ k = "prs_belief" /\ \E s \in Range(records.prs) : s.belief_uuid \notin BeliefIds
        \/ k = "prs_behaviour" /\ \E s \in Range(records.prs) : s.behaviour_uuid \notin BehaviourIds}

GraphProduced == pc \in {"InputsLoaded", "Exited"}

\* C12: when an input record names an identifier that matches no loaded
\* entity, whatever the kind of cross-reference, loading does not produce a
\* graph.
C12_UnresolvedNeverLoads == Unresolved # {} => ~GraphProduced

\* The (belief, behaviour) pairs that occur in the performance records.
PrsPairs == {<<records.prs[i].belief_uuid, records.prs[i].behaviour_uuid>> :
                i \in 1..Len(records.prs)}

\* The position of the last performance record with the pair k.
LastWith(k) ==
    CHOOSE i \in 1..Len(records.prs) :
        /\ <<records.prs[i].belief_uuid, records.prs[i].behaviour_uuid>> = k
        /\ \A j \in (i + 1)..Len(records.prs) :
              <<records.prs[j].belief_uuid, records.prs[j].behaviour_uuid>> # k

\* C13: the performance table built from records that all resolve has the
\* pairs that occur in the records and no other, each with the value of the
\* last record with that pair; its size is the number of distinct pairs.
C13_PrsLastWins ==
    GraphProduced =>
        /\ DOMAIN prs = PrsPairs
        /\ \A k \in PrsPairs : prs[k] = records.prs[LastWith(k)].value
        /\ Cardinality(DOMAIN prs) = Cardinality(PrsPairs)

\* The table is built from three records: the first and the last have the
\* same pair and different values, the second has another pair.
C13_Witness ==
    /\ GraphProduced
    /\ Len(records.prs) = 3
    /\ records.prs[1].belief_uuid = records.prs[3].belief_uuid
    /\ records.prs[1].behaviour_uuid = records.prs[3].behaviour_uuid
    /\ records.prs[1].value # records.prs[3].value
    /\ records.prs[2].behaviour_uuid # records.prs[1].behaviour_uuid
    /\ Cardinality(DOMAIN prs) = 2

\* C14: when the program has loaded its four inputs and exited with
\* success, every tick from start to end has been simulated and one record
\* for each loaded agent has been written to the output.
C14_ExitAfterFullRun ==
    pc = "Exited" =>
        /\ output.state = "complete"
        /\ Len(output.specs) = Len(agents)
        /\ \A a \in Range(agents) : \A t \in start_time..end_time :
              t \in DOMAIN actions[a] /\ HasAllActivations(a, t)

====
